---- MODULE Spec2Model ----
(***************************************************************************)
(* A model of two devito source files:                                     *)
(*   devito/core/gpu.py               - device operators: option           *)
(*       normalization, the pass pipelines, stream/task/memcpy keys        *)
(*   devito/ir/equations/algorithms.py - dimension_sort, lower_exprs,      *)
(*       concretize_subdims                                                *)
(* Each component has its own specification (SpecStream, SpecOptions,      *)
(* SpecSort, SpecLower, SpecConcretize); the variables of the other        *)
(* components stay at their idle values.                                   *)
(***************************************************************************)
EXTENDS Integers, Sequences, FiniteSets, TLC

VARIABLES
  \* ---- streaming classifier (gpu.py:424-485)
  cluster,      \* the Cluster `c`: its scope's writes and reads, its ispace
  gpu_fit,      \* options['gpu-fit'] captured by stream_key_wrap
  task_res,     \* outcome of the last task_key(c) call
  memcpy_res,   \* outcome of the last memcpy_key(c) call
  \* ---- operator pipeline (gpu.py:24-419)
  backend,      \* the language mixin of the operator class: "omp" | "acc"
  mode,         \* kwargs['mode']
  oo,           \* kwargs['options'], the dict that is normalized in place
  opts_in,      \* the options as the caller supplied them
  op_pc,        \* position of the compilation
  op_err,       \* the exception that ended the compilation, if any
  ran,          \* the passes executed so far, in order
  \* ---- dimension_sort (algorithms.py:16-92)
  ds_expr,      \* the equation handed to dimension_sort
  ds_first,     \* outcome of one dimension_sort(expr) call
  ds_second,    \* outcome of another dimension_sort(expr) call
  \* ---- concretize_subdims (algorithms.py:161-291)
  cs_exprs,     \* the expressions handed to concretize_subdims
  cs_todo,      \* the symbols the running call has still to visit
  cs_mapper,    \* `mapper` of the running call
  cs_rebuilt,   \* `rebuilt` of the running call
  sregistry,    \* the names made so far, counted by prefix
  cs_pc,        \* "idle", "running" or "returned"
  cs_calls,     \* the calls that returned: input, mapper, rebuilt, result
  \* ---- lower_exprs (algorithms.py:95-158)
  lw_expr,          \* the expression handed to lower_exprs, term by term
  lw_subs,          \* the user-supplied substitutions
  lw_dimension_map, \* expr.subdomain.dimension_map, empty without a SubDomain
  lw_halo,          \* the left halo+padding along each space Dimension
  lw_processed,     \* what lower_exprs returned
  lw_pc             \* "idle", "start" or "done"

streamVars == <<cluster, gpu_fit, task_res, memcpy_res>>
opVars == <<backend, mode, oo, opts_in, op_pc, op_err, ran>>

sortVars == <<ds_expr, ds_first, ds_second>>

concVars == <<cs_exprs, cs_todo, cs_mapper, cs_rebuilt, sregistry, cs_pc, cs_calls>>

lowVars == <<lw_expr, lw_subs, lw_dimension_map, lw_halo, lw_processed, lw_pc>>

\* What the actions of one component leave alone.
notStream == <<opVars, sortVars, concVars, lowVars>>
notOp == <<streamVars, sortVars, concVars, lowVars>>
notSort == <<streamVars, opVars, concVars, lowVars>>
notConc == <<streamVars, opVars, sortVars, lowVars>>
notLow == <<streamVars, opVars, sortVars, concVars>>
vars == <<streamVars, opVars, sortVars, concVars, lowVars>>

(***************************************************************************)
(*                    StreamingClassifier (gpu.py:424-485)                 *)
(***************************************************************************)

\* Largest number of Functions a cluster writes (and reads).
MaxAccessed == 2

\* The Functions a cluster may access, each with its time-like Dimension
\* (f.time_dim). `usave`/`vsave` are subsampled along their own dimensions.
Functions ==
  { [name |-> "u",     time_dim |-> "time"],
    [name |-> "v",     time_dim |-> "time"],
    [name |-> "usave", time_dim |-> "tsub0"],
    [name |-> "vsave", time_dim |-> "tsub1"] }

TimeDims == {f.time_dim : f \in Functions}

\* c.ispace[d].dim is `d` itself or the Dimension `d` derives from.
Ispaces ==
  { m \in [TimeDims -> TimeDims] :
      /\ m["time"] = "time"
      /\ \A d \in TimeDims : m[d] \in {d, "time"} }

\* gpu-fit values: the two defaults of _normalize_gpu_fit, or named Functions.
GpuFits == {{"all-fallback"}, {"None"}} \cup SUBSET {f.name : f \in Functions}

Clusters ==
  { [writes |-> w, reads |-> r, ispace |-> m] :
      w \in {s \in SUBSET Functions : Cardinality(s) <= MaxAccessed},
      r \in {s \in SUBSET Functions : Cardinality(s) <= MaxAccessed},
      m \in Ispaces }

\* Outcomes of a call: not called yet, returned None, returned a Dimension
\* (or a set of them), raised.
Pending   == [kind |-> "pending", dims |-> {}]
RetNone   == [kind |-> "none", dims |-> {}]
RetDim(d) == [kind |-> "dim", dims |-> {d}]
RetSet(s) == [kind |-> "set", dims |-> s]
Raise(e)  == [kind |-> e, dims |-> {}]

\* devito.passes.is_on_device: a Function is on the device when gpu-fit is the
\* 'all-fallback' default or names it.
is_on_device(f, gfit) == "all-fallback" \in gfit \/ f.name \in gfit

\* devito.tools.as_tuple on a stream_key result: None -> (), a Dimension ->
\* (d,), a set -> its elements (their order is not observed by the callers).
as_tuple(r) == IF r.kind = "none" THEN {} ELSE r.dims

\* stream_key_wrap(options).func(items)
stream_key(items, gfit) ==
  LET retval == {f.time_dim : f \in {g \in items : ~is_on_device(g, gfit)}}
  IN  IF Cardinality(retval) > 1 THEN RetSet(retval)
      ELSE IF retval # {} THEN RetDim(CHOOSE d \in retval : TRUE)
      ELSE RetNone

\* c.ispace[d].dim
ispace_dim(c, d) == c.ispace[d]

\* UniqueDim without the `len(dims) > 1` check.
MutUniqueDim(dims) ==
  IF dims # {} THEN RetDim(CHOOSE d \in dims : TRUE) ELSE RetNone

\* The tail shared by task_key and memcpy_key: the ambiguity check and the pop.

UniqueDim(dims) ==
  IF Cardinality(dims) > 1 THEN Raise("ValueError")
  ELSE IF dims # {} THEN RetDim(CHOOSE d \in dims : TRUE)
  ELSE RetNone

\* task_wrap(stream_key).func(c)
task_key(c, gfit) ==
  LET dims == {ispace_dim(c, d) : d \in as_tuple(stream_key(c.writes, gfit))}
  IN  UniqueDim(dims)

\* memcpy_wrap with the `if task_key(c)` precedence test dropped.
MutMemcpyKey(c, gfit) ==
  LET dims == {ispace_dim(c, d) : d \in as_tuple(stream_key(c.reads, gfit))}
  IN  UniqueDim(dims)

\* memcpy_wrap(stream_key, task_key).func(c). An exception of task_key(c)
\* propagates; a returned Dimension is truthy.
memcpy_key(c, gfit) ==
  LET tk == task_key(c, gfit)
      dims == {ispace_dim(c, d) : d \in as_tuple(stream_key(c.reads, gfit))}
  IN  IF tk.kind = "ValueError" THEN tk
      ELSE IF tk.kind = "dim" THEN RetNone
      ELSE UniqueDim(dims)

NoCluster == [writes |-> {}, reads |-> {}, ispace |-> [d \in TimeDims |-> d]]

StreamIdle ==
  /\ cluster = NoCluster
  /\ gpu_fit = {}
  /\ task_res = Pending
  /\ memcpy_res = Pending

StreamInit ==
  /\ cluster \in Clusters
  /\ gpu_fit \in GpuFits
  /\ task_res = Pending
  /\ memcpy_res = Pending

\* The tasking pass asks task_key(c) for the cluster.
CallTaskKey ==
  /\ task_res = Pending
  /\ task_res' = task_key(cluster, gpu_fit)
  /\ UNCHANGED <<cluster, gpu_fit, memcpy_res, notStream>>

\* The streaming pass (MemcpyAsync) asks memcpy_key(c) for the cluster.
CallMemcpyKey ==
  /\ memcpy_res = Pending
  /\ memcpy_res' = memcpy_key(cluster, gpu_fit)
  /\ UNCHANGED <<cluster, gpu_fit, task_res, notStream>>

StreamNext == CallTaskKey \/ CallMemcpyKey

(***************************************************************************)
(*                  OperatorPipeline: options (gpu.py:24-116, 328-395)     *)
(***************************************************************************)

\* Largest number of option keys, besides 'mpi', the caller supplies.
MaxOptions == 2

\* Option values. Every value is a record of one shape: a tag and a tuple.
None     == [t |-> "none",  v |-> <<>>]
Bool(b)  == [t |-> "bool",  v |-> <<IF b THEN "True" ELSE "False">>]
Str(x)   == [t |-> "str",   v |-> <<x>>]
Num(x)   == [t |-> "num",   v |-> <<x>>]
Fn(x)    == [t |-> "func",  v |-> <<x>>]
Tup(x)   == [t |-> "tuple", v |-> x]
ClsAttr(x) == [t |-> "cls", v |-> <<x>>]
ParTile(items, sparse, reduce) ==
  [t |-> "ParTile", v |-> <<items.t, sparse.t, reduce.t>>]

\* Python truthiness of an option value (`not o['blockeager']`, `len(...)`).
Truthy(x) ==
  CASE x.t = "none"  -> FALSE
    [] x.t = "bool"  -> x.v[1] = "True"
    [] x.t = "num"   -> x.v[1] # "0"
    [] x.t = "tuple" -> Len(x.v) > 0
    [] OTHER         -> TRUE

\* devito.tools.as_tuple on an option value.
as_tuple_value(x) ==
  CASE x.t = "none"  -> <<>>
    [] x.t = "tuple" -> x.v
    [] OTHER         -> x.v

\* DeviceOperatorMixin class attributes set in this file.
BLOCK_LEVELS == 0
GPU_FIT == Str("all-fallback")

\* CoreOperator.BLOCK_EAGER: lazy blocking is the default.
BLOCK_EAGER == FALSE

\* The keys popped with a default, and their defaults, in the order of
\* _normalize_kwargs; 'blocklazy', 'par-tile*', 'gpu-fit', 'gpu-create' and
\* 'mpi' are handled apart.
PopDefaults ==
  ( "buf-async-degree"    :> None
 @@ "fuse-tasks"          :> Bool(FALSE)
 @@ "cse-min-cost"        :> ClsAttr("CSE_MIN_COST")
 @@ "blockinner"          :> Bool(TRUE)
 @@ "blocklevels"         :> Num(ToString(BLOCK_LEVELS))
 @@ "blockeager"          :> Bool(BLOCK_EAGER)
 @@ "blockrelax"          :> ClsAttr("BLOCK_RELAX")
 @@ "skewing"             :> Bool(FALSE)
 @@ "cire-maxpar"         :> Bool(TRUE)
 @@ "cire-ftemps"         :> Bool(FALSE)
 @@ "cire-mingain"        :> ClsAttr("CIRE_MINGAIN")
 @@ "cire-schedule"       :> ClsAttr("CIRE_SCHEDULE")
 @@ "par-chunk-nonaffine" :> ClsAttr("PAR_CHUNK_NONAFFINE")
 @@ "par-disabled"        :> Bool(TRUE)
 @@ "dist-drop-unwritten" :> ClsAttr("DIST_DROP_UNWRITTEN")
 @@ "expand"              :> ClsAttr("EXPAND")
 @@ "deriv-schedule"      :> ClsAttr("DERIV_SCHEDULE")
 @@ "deriv-unroll"        :> Bool(FALSE)
 @@ "opt-comms"           :> Bool(TRUE)
 @@ "linearize"           :> Bool(FALSE)
 @@ "mapify-reduce"       :> ClsAttr("MAPIFY_REDUCE")
 @@ "index-mode"          :> ClsAttr("INDEX_MODE")
 @@ "place-transfers"     :> Bool(TRUE)
 @@ "errctl"              :> ClsAttr("ERRCTL") )

\* The keys _normalize_kwargs sets without consulting the caller.
FixedOptions ==
  ( "parallel"            :> Bool(TRUE)
 @@ "min-storage"         :> Bool(FALSE)
 @@ "cire-rotate"         :> Bool(FALSE)
 @@ "par-collapse-ncores" :> Num("1")
 @@ "par-collapse-work"   :> Num("1")
 @@ "par-dynamic-work"    :> Num("inf")
 @@ "par-nested"          :> Num("inf") )

\* Every key the base _normalize_kwargs pops from the caller's options.
PoppedKeys ==
  DOMAIN PopDefaults \cup
  {"mpi", "blocklazy", "par-tile", "par-tile-sparse", "par-tile-reduce",
   "gpu-fit", "gpu-create"}

\* Every key of the normalized mapping `o`.
NormalizedKeys ==
  DOMAIN PopDefaults \cup DOMAIN FixedOptions \cup
  {"mpi", "blocklazy", "par-tile", "gpu-fit", "gpu-create"}

\* dict.pop(k, dflt) and the dict left behind.
Pop(d, k, dflt) == IF k \in DOMAIN d THEN d[k] ELSE dflt
Without(d, ks) == [k \in DOMAIN d \ ks |-> d[k]]
Update(d, e) == [k \in DOMAIN d \cup DOMAIN e |-> IF k \in DOMAIN e THEN e[k] ELSE d[k]]

\* Characters of the mode strings, for Python's `x in "string"`.
Chars(x) ==
  CASE x = "noop"         -> <<"n","o","o","p">>
    [] x = "advanced"     -> <<"a","d","v","a","n","c","e","d">>
    [] x = "advanced-fsg" -> <<"a","d","v","a","n","c","e","d","-","f","s","g">>
    [] x = "tasking"      -> <<"t","a","s","k","i","n","g">>
    [] x = "streaming"    -> <<"s","t","r","e","a","m","i","n","g">>
    [] OTHER              -> <<x>>

IsSubstring(a, b) ==
  \E i \in 0..(Len(Chars(b)) - Len(Chars(a))) :
     \A k \in 1..Len(Chars(a)) : Chars(b)[i + k] = Chars(a)[k]

\* Python's `i in kwargs['mode']`: membership in a tuple, substring of a str.
InMode(i, m) ==
  IF m.t = "tuple" THEN \E k \in 1..Len(m.v) : m.v[k] = i
  ELSE IsSubstring(i, m.v[1])

\* f.values() of a tensor-like Function; [f] of any other.
TensorValues(f) == IF f = "T" THEN {"T_xx", "T_xy"} ELSE {f}

\* _normalize_gpu_fit with the two defaults exchanged.
MutNormalizeGpuFit(d, m) ==
  IF "gpu-fit" \in DOMAIN d
  THEN UNION {TensorValues(as_tuple_value(d["gpu-fit"])[i]) :
                i \in 1..Len(as_tuple_value(d["gpu-fit"]))}
  ELSE IF \E i \in {"tasking", "streaming"} : InMode(i, m)
       THEN {GPU_FIT.v[1]}
       ELSE {"None"}

\* DeviceOperatorMixin._normalize_gpu_fit: the set whose tuple is returned.
normalize_gpu_fit(d, m) ==
  IF "gpu-fit" \in DOMAIN d
  THEN UNION {TensorValues(as_tuple_value(d["gpu-fit"])[i]) :
                i \in 1..Len(as_tuple_value(d["gpu-fit"]))}
  ELSE IF \E i \in {"tasking", "streaming"} : InMode(i, m)
       THEN {"None"}
       ELSE {as_tuple_value(GPU_FIT)[i] : i \in 1..Len(as_tuple_value(GPU_FIT))}

\* tuple(set): the orders in which a set may be laid out.
TupleOrders(S) ==
  {q \in [1..Cardinality(S) -> S] : \A x \in S : \E i \in DOMAIN q : q[i] = x}

\* The mapping `o` with 'blocklazy' defaulting to True whatever 'blockeager'.
MutNormalizedOptions(d, gfit) ==
  [k \in NormalizedKeys |->
     CASE k = "mpi"         -> d["mpi"]
       [] k = "blocklazy"   -> Pop(d, "blocklazy", Bool(TRUE))
       [] k = "par-tile"    ->
            ParTile(Pop(d, "par-tile", Bool(FALSE)),
                    Pop(d, "par-tile-sparse", None),
                    Pop(d, "par-tile-reduce", None))
       [] k = "gpu-fit"     -> Tup(gfit)
       [] k = "gpu-create"  -> Tup(as_tuple_value(Pop(d, "gpu-create", Tup(<<>>))))
       [] k \in DOMAIN FixedOptions -> FixedOptions[k]
       [] OTHER             -> Pop(d, k, PopDefaults[k])]

\* The mapping `o` built by DeviceOperatorMixin._normalize_kwargs from the
\* options `d`; `gfit` is the tuple laid out for o['gpu-fit'].
NormalizedOptions(d, gfit) ==
  [k \in NormalizedKeys |->
     CASE k = "mpi"         -> d["mpi"]
       [] k = "blocklazy"   ->
            Pop(d, "blocklazy", Bool(~Truthy(Pop(d, "blockeager", Bool(BLOCK_EAGER)))))
       [] k = "par-tile"    ->
            ParTile(Pop(d, "par-tile", Bool(FALSE)),
                    Pop(d, "par-tile-sparse", None),
                    Pop(d, "par-tile-reduce", None))
       [] k = "gpu-fit"     -> Tup(gfit)
       [] k = "gpu-create"  -> Tup(as_tuple_value(Pop(d, "gpu-create", Tup(<<>>))))
       [] k \in DOMAIN FixedOptions -> FixedOptions[k]
       [] OTHER             -> Pop(d, k, PopDefaults[k])]

NoError == [type |-> "none", keys |-> {}]

\* The base handler without its final `if oo:` check.
MutBaseNormalizeNoCheck(d, gfit) ==
  IF "mpi" \notin DOMAIN d
  THEN [err |-> [type |-> "KeyError", keys |-> {"mpi"}], oo |-> d]
  ELSE [err |-> NoError,
        oo  |-> Update(Without(d, PoppedKeys), NormalizedOptions(d, gfit))]

\* The base handler with the default of 'errctl' forgotten too.
MutBaseNormalizeErrctl(d, gfit) ==
  IF "mpi" \notin DOMAIN d
  THEN [err |-> [type |-> "KeyError", keys |-> {"mpi"}], oo |-> d]
  ELSE IF "errctl" \notin DOMAIN d
  THEN [err |-> [type |-> "KeyError", keys |-> {"errctl"}],
        oo  |-> Without(d, PoppedKeys \ {"errctl"})]
  ELSE IF DOMAIN d \ PoppedKeys # {}
  THEN [err |-> [type |-> "InvalidOperator", keys |-> DOMAIN d \ PoppedKeys],
        oo  |-> Without(d, PoppedKeys)]
  ELSE [err |-> NoError,
        oo  |-> Update(Without(d, PoppedKeys), NormalizedOptions(d, gfit))]

\* DeviceOperatorMixin._normalize_kwargs on the dict `d`: the exception raised,
\* if any, and the dict as the call leaves it.
BaseNormalize(d, gfit) ==
  IF "mpi" \notin DOMAIN d
  THEN [err |-> [type |-> "KeyError", keys |-> {"mpi"}], oo |-> d]
  ELSE IF DOMAIN d \ PoppedKeys # {}
  THEN [err |-> [type |-> "InvalidOperator", keys |-> DOMAIN d \ PoppedKeys],
        oo  |-> Without(d, PoppedKeys)]
  ELSE [err |-> NoError,
        oo  |-> Update(Without(d, PoppedKeys), NormalizedOptions(d, gfit))]

\* DeviceOmpOperatorMixin._normalize_kwargs: what it does before super()...
OmpPrelude(d) ==
  Without(IF "linearize" \in DOMAIN d THEN d ELSE d @@ ("linearize" :> Bool(TRUE)),
          {"openmp"})

\* ... and DeviceAccOperatorMixin._normalize_kwargs.
AccPrelude(d) == Without(d, {"openmp"})

\* The language flag each mixin sets after super()._normalize_kwargs returned.
LanguageFlag(b) == IF b = "omp" THEN "openmp" ELSE "openacc"

\* cls._normalize_kwargs(**kwargs) of a Device{Omp,Acc} operator.
normalize_kwargs(b, d, gfit) ==
  LET pre == IF b = "omp" THEN OmpPrelude(d) ELSE AccPrelude(d)
      r   == BaseNormalize(pre, gfit)
  IN  IF r.err # NoError THEN r
      ELSE [r EXCEPT !.oo = Update(r.oo, LanguageFlag(b) :> Bool(TRUE))]

\* DeviceOmpOperatorMixin._check_kwargs applied under any backend.
MutCheckKwargs(b, d) ==
  IF Len(d["gpu-create"].v) > 0
  THEN [type |-> "InvalidOperator", keys |-> {"gpu-create"}]
  ELSE NoError

\* cls._check_kwargs(**kwargs): only the OpenMP mixin defines a check.
check_kwargs(b, d) ==
  IF b = "omp" /\ Len(d["gpu-create"].v) > 0
  THEN [type |-> "InvalidOperator", keys |-> {"gpu-create"}]
  ELSE NoError


(***************************************************************************)
(*          OperatorPipeline: the stages (gpu.py:139-252)                  *)
(***************************************************************************)

\* The optimization level the mode selects: a tuple of pass names is Custom.
Level(m) ==
  IF m.t = "tuple" THEN "custom"
  ELSE CASE m.v[1] = "noop"         -> "noop"
         [] m.v[1] = "advanced"     -> "adv"
         [] m.v[1] = "advanced-fsg" -> "fsg"

\* One executed pass: its name and, for a pass of cls._Target, the backend.
Pass(n)         == [pass |-> n, target |-> "-"]
TargetPass(n, b) == [pass |-> n, target |-> b]

\* DeviceAdvOperator._specialize_dsl
AdvSpecializeDsl == <<Pass("collect_derivatives")>>

\* The cluster stage with fission ahead of the first fusion.
MutAdvSpecializeClusters(d) ==
  <<Pass("fission"), Pass("fuse-toposort"), Pass("cire-invariants"), Pass("Lift")>>
  \o (IF Truthy(d["blockeager"]) THEN <<Pass("blocking")>> ELSE <<>>)
  \o <<Pass("cire-sops"), Pass("factorize"), Pass("optimize_pows"),
       Pass("fuse"), Pass("cse")>>
  \o (IF Truthy(d["blocklazy"]) THEN <<Pass("blocking")>> ELSE <<>>)

\* DeviceAdvOperator._specialize_clusters under the normalized options `d`
AdvSpecializeClusters(d) ==
  <<Pass("fuse-toposort"), Pass("fission"), Pass("cire-invariants"), Pass("Lift")>>
  \o (IF Truthy(d["blockeager"]) THEN <<Pass("blocking")>> ELSE <<>>)
  \o <<Pass("cire-sops"), Pass("factorize"), Pass("optimize_pows"),
       Pass("fuse"), Pass("cse")>>
  \o (IF Truthy(d["blocklazy"]) THEN <<Pass("blocking")>> ELSE <<>>)

\* The final-graph stage with the symbol definitions made last.
MutAdvSpecializeIet(b) ==
  <<Pass("mpiize"), Pass("relax_incr_dimensions"),
    TargetPass("Parizer.make_parallel", b), TargetPass("Parizer.initialize", b),
    Pass("hoist_prodders"), Pass("check_stability"),
    Pass("linearize"), TargetPass("DataManager.process", b)>>

\* DeviceAdvOperator._specialize_iet
AdvSpecializeIet(b) ==
  <<Pass("mpiize"), Pass("relax_incr_dimensions"),
    TargetPass("Parizer.make_parallel", b), TargetPass("Parizer.initialize", b),
    Pass("hoist_prodders"), Pass("check_stability"),
    TargetPass("DataManager.process", b), Pass("linearize")>>

\* DeviceNoopOperator._specialize_iet
NoopSpecializeIet(b) ==
  <<Pass("mpiize"),
    TargetPass("Parizer.make_parallel", b), TargetPass("Parizer.initialize", b),
    TargetPass("DataManager.process", b)>>

\* DeviceCustomOperator._make_dsl_passes_mapper
DslPassesMapper == ("collect-derivs" :> Pass("collect_derivatives"))

\* DeviceCustomOperator._make_clusters_passes_mapper
ClustersPassesMapper ==
  ( "buffering" :> Pass("buffering")
 @@ "blocking"  :> Pass("blocking")
 @@ "tasking"   :> Pass("tasking")
 @@ "streaming" :> Pass("MemcpyAsync.process")
 @@ "factorize" :> Pass("factorize")
 @@ "fission"   :> Pass("fission")
 @@ "fuse"      :> Pass("fuse")
 @@ "lift"      :> Pass("Lift-cire-invariants")
 @@ "cire-sops" :> Pass("cire-sops")
 @@ "cse"       :> Pass("cse")
 @@ "opt-pows"  :> Pass("optimize_pows")
 @@ "topofuse"  :> Pass("fuse-toposort") )

\* The final-graph table without 'orchestrate'.
MutIetPassesMapper(b) ==
  ( "parallel"   :> TargetPass("Parizer.make_parallel", b)
 @@ "pthreadify" :> Pass("pthreadify")
 @@ "mpi"        :> Pass("mpiize")
 @@ "linearize"  :> Pass("linearize")
 @@ "prodders"   :> Pass("hoist_prodders")
 @@ "init"       :> TargetPass("Parizer.initialize", b)
 @@ LanguageFlag(b) :> TargetPass("Parizer.make_parallel", b) )

\* DeviceCustom{Omp,Acc}Operator._make_iet_passes_mapper: the table of
\* DeviceCustomOperator, and the language's name for 'parallel'.
IetPassesMapper(b) ==
  ( "parallel"    :> TargetPass("Parizer.make_parallel", b)
 @@ "orchestrate" :> TargetPass("Orchestrator.process", b)
 @@ "pthreadify"  :> Pass("pthreadify")
 @@ "mpi"         :> Pass("mpiize")
 @@ "linearize"   :> Pass("linearize")
 @@ "prodders"    :> Pass("hoist_prodders")
 @@ "init"        :> TargetPass("Parizer.initialize", b)
 @@ LanguageFlag(b) :> TargetPass("Parizer.make_parallel", b) )

\* DeviceCustom{Omp,Acc}Operator._known_passes
known_passes(b) ==
  { "collect-derivs",
    "buffering",
    "blocking", "tasking", "streaming", "factorize", "fission", "fuse", "lift",
    "cire-sops", "cse", "opt-pows", "topofuse",
    "orchestrate", "pthreadify", "parallel", "mpi", "linearize", "prodders" }
  \cup {LanguageFlag(b)}

\* DeviceCustomOperator._known_passes_disabled
known_passes_disabled == {"denormals", "simd"}

\* The sanity check of the pass list: a name that is not known, the names
\* of the disabled set included, is an InvalidOperator.
check_passes(b, names) ==
  LET bad == {names[k] : k \in DOMAIN names} \ known_passes(b)
  IN  IF bad # {} THEN [type |-> "InvalidOperator", keys |-> bad] ELSE NoError

\* One stage of the Custom pipeline: the passes of the list the stage's
\* table has, in the order of the list.
RECURSIVE CustomStage(_, _)
CustomStage(names, mapper) ==
  IF names = <<>> THEN <<>>
  ELSE (IF Head(names) \in DOMAIN mapper THEN <<mapper[Head(names)]>> ELSE <<>>)
       \o CustomStage(Tail(names), mapper)

UnknownKeys == {"totally-bogus-key", "parallel", "openacc"}

\* The keys a caller may supply besides 'mpi'.
OptionKeys == (PoppedKeys \cup {"openmp"} \cup UnknownKeys) \ {"mpi"}

\* The values a caller may give a key.
UserValues(k) ==
  CASE k = "mpi"        -> {Bool(FALSE), Str("basic")}
    [] k \in {"blockeager", "blocklazy", "linearize", "openmp"}
                        -> {Bool(TRUE), Bool(FALSE)}
    [] k = "gpu-fit"    -> {None, Fn("u"), Tup(<<"u", "T">>)}
    [] k = "gpu-create" -> {Tup(<<>>), Tup(<<"u">>), Fn("u")}
    [] OTHER            -> {Str("user")}

EmptyDict == [k \in {} |-> None]

RECURSIVE Dicts(_)
Dicts(K) ==
  IF K = {} THEN {EmptyDict}
  ELSE LET k == CHOOSE x \in K : TRUE
       IN  {d @@ (k :> x) : d \in Dicts(K \ {k}), x \in UserValues(k)}

\* The subsets of S with at most n elements.
RECURSIVE SmallSubsets(_, _)
SmallSubsets(S, n) ==
  IF n = 0 THEN {{}}
  ELSE LET T == SmallSubsets(S, n - 1)
       IN  T \cup {t \cup {x} : t \in T, x \in S}

Modes ==
  {Str("noop"), Str("advanced"), Str("advanced-fsg"),
   Tup(<<"tasking">>), Tup(<<"fuse", "streaming">>), Tup(<<"fuse">>),
   Tup(<<"streaming", "parallel">>), Tup(<<"parallel", "collect-derivs">>),
   Tup(<<"bogus-pass">>), Tup(<<"fuse", "simd">>), Tup(<<"openmp">>),
   Tup(<<"init">>)}

OpIdle ==
  /\ backend = "omp"
  /\ mode = Str("noop")
  /\ oo = EmptyDict
  /\ opts_in = EmptyDict
  /\ op_pc = "idle"
  /\ op_err = NoError
  /\ ran = <<>>

OpInit ==
  /\ backend \in {"omp", "acc"}
  /\ mode \in Modes
  /\ \E K \in SmallSubsets(OptionKeys, MaxOptions), M \in SUBSET {"mpi"} :
        opts_in \in Dicts(K \cup M)
  /\ oo = opts_in
  /\ op_pc = "start"
  /\ op_err = NoError
  /\ ran = <<>>

\* Operator construction calls cls._normalize_kwargs(**kwargs) first.
NormalizeKwargs ==
  /\ op_pc = "start"
  /\ \E gfit \in TupleOrders(normalize_gpu_fit(oo, mode)) :
       LET r == normalize_kwargs(backend, oo, gfit)
       IN  /\ oo' = r.oo
           /\ op_err' = r.err
           /\ op_pc' = IF r.err = NoError THEN "normalized" ELSE "failed_normalize"
  /\ UNCHANGED <<backend, mode, opts_in, ran, notOp>>

\* ... then cls._check_kwargs(**kwargs) on the normalized options.
CheckKwargs ==
  /\ op_pc = "normalized"
  /\ op_err' = check_kwargs(backend, oo)
  /\ op_pc' = IF check_kwargs(backend, oo) = NoError THEN "checked" ELSE "failed_check"
  /\ UNCHANGED <<backend, mode, oo, opts_in, ran, notOp>>

\* A Custom operator checks its pass list before it builds anything.
CheckPasses ==
  /\ op_pc = "checked"
  /\ Level(mode) = "custom"
  /\ op_err' = check_passes(backend, mode.v)
  /\ op_pc' = IF check_passes(backend, mode.v) = NoError THEN "passes_checked"
              ELSE "failed_passes"
  /\ UNCHANGED <<backend, mode, oo, opts_in, ran, notOp>>

\* The operator is ready to run its stages.
Ready ==
  \/ op_pc = "checked" /\ Level(mode) # "custom"
  \/ op_pc = "passes_checked"

\* The pre-clustering stage; the Noop level defines none.
SpecializeDsl ==
  /\ Ready
  /\ ran' = ran \o (CASE Level(mode) = "noop"   -> <<>>
                      [] Level(mode) = "custom" -> CustomStage(mode.v, DslPassesMapper)
                      [] OTHER                  -> AdvSpecializeDsl)
  /\ op_pc' = "dsl"
  /\ UNCHANGED <<backend, mode, oo, opts_in, op_err, notOp>>

\* The cluster stage.
SpecializeClusters ==
  /\ op_pc = "dsl"
  /\ ran' = ran \o (CASE Level(mode) = "noop"   -> <<>>
                      [] Level(mode) = "custom" -> CustomStage(mode.v, ClustersPassesMapper)
                      [] OTHER                  -> AdvSpecializeClusters(oo))
  /\ op_pc' = "clusters"
  /\ UNCHANGED <<backend, mode, oo, opts_in, op_err, notOp>>

\* The final-graph stage.
SpecializeIet ==
  /\ op_pc = "clusters"
  /\ ran' = ran \o (CASE Level(mode) = "noop"   -> NoopSpecializeIet(backend)
                      [] Level(mode) = "custom" ->
                           CustomStage(mode.v, IetPassesMapper(backend))
                      [] OTHER                  -> AdvSpecializeIet(backend))
  /\ op_pc' = "done"
  /\ UNCHANGED <<backend, mode, oo, opts_in, op_err, notOp>>

OpNext ==
  \/ NormalizeKwargs
  \/ CheckKwargs
  \/ CheckPasses
  \/ SpecializeDsl
  \/ SpecializeClusters
  \/ SpecializeIet


(***************************************************************************)
(*                 DimensionSorter (algorithms.py:16-92)                   *)
(***************************************************************************)

\* Largest number of Indexeds in an equation.
MaxIndexeds == 2

\* The Dimensions an equation may reference: `t` steps over `time`, `tsub`
\* is a ConditionalDimension of `time`, `xi` a SubDimension of `x`, `ci` an
\* indirect ConditionalDimension of `x`, `xc` a ConditionalDimension of `x`
\* that carries its parent's name, `s` a StencilDimension.
DimTable ==
  ( "time" :> [name |-> "time", parent |-> "",     derived |-> FALSE, indirect |-> FALSE, stencil |-> FALSE]
 @@ "t"    :> [name |-> "t",    parent |-> "time", derived |-> TRUE,  indirect |-> FALSE, stencil |-> FALSE]
 @@ "tsub" :> [name |-> "tsub", parent |-> "time", derived |-> TRUE,  indirect |-> FALSE, stencil |-> FALSE]
 @@ "x"    :> [name |-> "x",    parent |-> "",     derived |-> FALSE, indirect |-> FALSE, stencil |-> FALSE]
 @@ "y"    :> [name |-> "y",    parent |-> "",     derived |-> FALSE, indirect |-> FALSE, stencil |-> FALSE]
 @@ "xi"   :> [name |-> "xi",   parent |-> "x",    derived |-> TRUE,  indirect |-> FALSE, stencil |-> FALSE]
 @@ "ci"   :> [name |-> "ci",   parent |-> "x",    derived |-> TRUE,  indirect |-> TRUE,  stencil |-> FALSE]
 @@ "xc"   :> [name |-> "x",    parent |-> "x",    derived |-> TRUE,  indirect |-> FALSE, stencil |-> FALSE]
 @@ "s"    :> [name |-> "s",    parent |-> "",     derived |-> FALSE, indirect |-> FALSE, stencil |-> TRUE] )

Dims == DOMAIN DimTable

\* The Dimension names in the order sorted() puts them.
SortedNames == <<"ci", "s", "t", "time", "tsub", "x", "xi", "y">>

NameRank(d) == CHOOSE r \in 1..Len(SortedNames) : SortedNames[r] = DimTable[d].name

\* Dimension.index: the Dimension itself when it is indirect or has no
\* parent, its parent otherwise.
DimIndex(d) ==
  IF DimTable[d].indirect \/ DimTable[d].parent = "" THEN d ELSE DimTable[d].parent

\* One index of an Indexed: affine in one Dimension (`i.d`), an integer
\* (for which `fd` is the Function's Dimension at that position), an
\* expression over several Dimensions, or an expression with nested Indexeds
\* whose own indices are affine in `dims`.
Aff(d)      == [kind |-> "affine", dims |-> <<d>>, fd |-> ""]
Const(fd)   == [kind |-> "const",  dims |-> <<>>,  fd |-> fd]
Atoms(ds)   == [kind |-> "atoms",  dims |-> ds,    fd |-> ""]
Nested(ds)  == [kind |-> "nested", dims |-> ds,    fd |-> ""]

\* The Indexeds an equation may be made of.
IndexedCatalogue ==
  { <<Aff("t"), Aff("x")>>,            \* u[t, x]
    <<Aff("tsub"), Aff("x")>>,         \* usave[tsub, x]
    <<Aff("xi")>>,                     \* f[xi]
    <<Aff("ci"), Aff("x")>>,           \* g[ci, x]
    <<Aff("xc")>>,                     \* h[xc]
    <<Aff("x"), Aff("y")>>,            \* a[x, y]
    <<Aff("y"), Aff("x")>>,            \* b[y, x]
    <<Const("x"), Aff("y")>>,          \* c[3, y]
    <<Atoms(<<"y", "x">>)>>,           \* d[x*y]
    <<Nested(<<"xi", "s">>), Aff("y")>>, \* A[B[xi + s], y]
    <<Aff("s"), Aff("x")>> }           \* w[s, x]

RECURSIVE SeqsUpTo(_, _)
SeqsUpTo(S, n) ==
  IF n = 0 THEN {<<>>}
  ELSE LET T == SeqsUpTo(S, n - 1)
       IN  T \cup {Append(t, x) : t \in T, x \in S}

\* The equations: their Indexeds in traversal order, the Dimensions that
\* occur outside any Indexed, the implicit dims, and whether those are an
\* IgnoreDimSort.
Equations ==
  { [indexeds |-> ix, free |-> fr, implicit |-> im, ignore |-> ig] :
      ix \in SeqsUpTo(IndexedCatalogue, MaxIndexeds),
      fr \in {{}, {"xi"}, {"ci"}},
      im \in {<<>>, <<"tsub">>, <<"xc">>, <<"ci">>},
      ig \in BOOLEAN }

Range(q) == {q[i] : i \in DOMAIN q}

\* devito.tools.filter_ordered: duplicates dropped, first occurrences kept.
RECURSIVE filter_ordered(_)
filter_ordered(q) ==
  IF q = <<>> THEN <<>>
  ELSE LET h == filter_ordered(SubSeq(q, 1, Len(q) - 1))
       IN  IF q[Len(q)] \in Range(h) THEN h ELSE Append(h, q[Len(q)])

RECURSIVE ArrangeFrom(_, _)
ArrangeFrom(S, r) ==
  IF r > Len(SortedNames) THEN {<<>>}
  ELSE {a \o b : a \in TupleOrders({d \in S : NameRank(d) = r}),
                 b \in ArrangeFrom(S, r + 1)}

\* A `filter_sorted` that leaves the set in the order it iterates.
MutFilterSorted(S) == TupleOrders(S)

\* devito.tools.filter_sorted on a set: sorted by name. sorted() is stable,
\* so members with equal names come out in the order the set iterates them:
\* every such outcome is in the result.
filter_sorted(S) == ArrangeFrom(S, 1)

RECURSIVE Flatten(_)
Flatten(qq) == IF qq = <<>> THEN <<>> ELSE Head(qq) \o Flatten(Tail(qq))

DropStencil(q) == SelectSeq(q, LAMBDA d : ~DimTable[d].stencil)

\* What one index adds to the relation.
IndexRelation(i) ==
  CASE i.kind = "affine" -> i.dims
    [] i.kind = "nested" -> DropStencil(i.dims)
    [] i.kind = "atoms"  -> CHOOSE q \in filter_sorted(Range(i.dims)) : TRUE
    [] OTHER             -> <<>>

\* dimension_sort.handle_indexed
handle_indexed(indexed) ==
  DropStencil(Flatten([k \in 1..Len(indexed) |-> IndexRelation(indexed[k])]))

\* `relations`, the implicit dims added in.
Relations(e) ==
  (IF e.ignore THEN {} ELSE {handle_indexed(e.indexeds[k]) : k \in 1..Len(e.indexeds)})
  \cup {e.implicit}

\* `extra` before it is sorted: the Dimensions found in the expression, and
\* those accessed through an integer index.
ExtraDims(e) ==
  e.free
  \cup UNION {UNION {Range(ix[j].dims) : j \in 1..Len(ix)} : ix \in Range(e.indexeds)}
  \cup UNION {{ix[j].fd : j \in {k \in 1..Len(ix) : ix[k].kind = "const"}} :
                ix \in Range(e.indexeds)}

\* The parent relations with each pair the wrong way round.
MutParentRelations(extra) ==
  {<<d, DimTable[d].parent>> :
     d \in {x \in extra : DimTable[x].derived /\ ~DimTable[x].indirect}}

\* {(d.parent, d) for d in extra if d.is_Derived and not d.indirect}
ParentRelations(extra) ==
  {<<DimTable[d].parent, d>> :
     d \in {x \in extra : DimTable[x].derived /\ ~DimTable[x].indirect}}

\* The relation left as it is: no index inserted.
MutExpandRelation(rel) == filter_ordered(rel)

\* The body of `for i in relations`: the index of a Dimension is inserted
\* before it when their names differ.
ExpandRelation(rel) ==
  filter_ordered(Flatten([k \in 1..Len(rel) |->
     IF DimTable[DimIndex(rel[k])].name = DimTable[rel[k]].name
     THEN <<rel[k]>> ELSE <<DimIndex(rel[k]), rel[k]>>]))

\* `implicit_relations`
ImplicitRelations(e) ==
  ParentRelations(ExtraDims(e)) \cup {ExpandRelation(r) : r \in Relations(e)}

\* a must come before b according to the relations.
Precedes(rels, a, b) ==
  /\ a # b
  /\ \E r \in rels : \E i, j \in 1..Len(r) : i < j /\ r[i] = a /\ r[j] = b

\* The topological sort: of the nodes all of whose predecessors are placed,
\* the first discovered is placed next; none left to place with nodes
\* remaining is a cycle.
RECURSIVE Toposort(_, _, _)
Toposort(placed, remaining, rels) ==
  IF remaining = <<>> THEN [st |-> "ok", order |-> placed]
  ELSE LET ready == {i \in 1..Len(remaining) :
                       \A j \in 1..Len(remaining) :
                          ~Precedes(rels, remaining[j], remaining[i])}
       IN  IF ready = {} THEN [st |-> "ValueError", order |-> <<>>]
           ELSE LET i == CHOOSE k \in ready : \A m \in ready : k <= m
                IN  Toposort(Append(placed, remaining[i]),
                             SubSeq(remaining, 1, i - 1)
                               \o SubSeq(remaining, i + 1, Len(remaining)),
                             rels)

\* devito.tools.Ordering(items, relations=..., mode='partial'): the items,
\* and the Dimensions only the relations name, in an order that respects
\* the relations, ties resolved by discovery order.
Ordering(items, rels) ==
  LET others == UNION {Range(r) : r \in rels} \ Range(items)
      nodes  == items \o (CHOOSE q \in filter_sorted(others) : TRUE)
  IN  Toposort(<<>>, nodes, rels)

\* dimension_sort(expr), `extra` being the sorted list of line 64.
dimension_sort(e, extra) == Ordering(extra, ImplicitRelations(e))

NotSorted == [st |-> "pending", order |-> <<>>]

NoEquation == [indexeds |-> <<>>, free |-> {}, implicit |-> <<>>, ignore |-> FALSE]

SortIdle ==
  /\ ds_expr = NoEquation
  /\ ds_first = NotSorted
  /\ ds_second = NotSorted

SortInit ==
  /\ ds_expr \in Equations
  /\ ds_first = NotSorted
  /\ ds_second = NotSorted

\* dimension_sort(expr) is called, the sets iterating in some order.
DimensionSort ==
  /\ ds_first = NotSorted
  /\ \E extra \in filter_sorted(ExtraDims(ds_expr)) :
        ds_first' = dimension_sort(ds_expr, extra)
  /\ UNCHANGED <<ds_expr, ds_second, notSort>>

\* dimension_sort(expr) is called again on the same equation.
DimensionSortAgain ==
  /\ ds_first # NotSorted
  /\ ds_second = NotSorted
  /\ \E extra \in filter_sorted(ExtraDims(ds_expr)) :
        ds_second' = dimension_sort(ds_expr, extra)
  /\ UNCHANGED <<ds_expr, ds_first, notSort>>

SortNext == DimensionSort \/ DimensionSortAgain

(***************************************************************************)
(*             SubdimensionConcretizer (algorithms.py:161-291)             *)
(***************************************************************************)

\* Largest number of Dimensions among the free symbols of the expressions.
MaxSymbols == 2

\* A Dimension: its class, name, parent (none or one), thickness symbols'
\* names, the Dimensions its condition names, its implicit dimension (none
\* or one name) and the Function holding its bounds (none or one).
PlainDim(n) ==
  [kind |-> "plain", name |-> n, parent |-> {}, tkns |-> <<>>, cond |-> {},
   idim |-> <<>>, funcs |-> <<>>]

\* AbstractSubDimension._symbolic_thickness(name)
symbolic_thickness(n) == <<n \o "_ltkn", n \o "_rtkn">>

SubDim(n, p) ==
  [kind |-> "sub", name |-> n, parent |-> {p}, tkns |-> symbolic_thickness(n),
   cond |-> {}, idim |-> <<>>, funcs |-> <<>>]

CondDim(n, p, c) ==
  [kind |-> "cond", name |-> n, parent |-> {p}, tkns |-> <<>>, cond |-> c,
   idim |-> <<>>, funcs |-> <<>>]

MultiDim(n, i, f) ==
  [kind |-> "multi", name |-> n, parent |-> {}, tkns |-> symbolic_thickness(n),
   cond |-> {}, idim |-> i, funcs |-> f]

BoundsFunction(n, ds) == [name |-> n, dims |-> ds]

\* The Dimensions of the expressions: two SubDimensions of `x`;
\* ConditionalDimensions on `x` without a condition, on a SubDimension, and
\* on `x` with a condition naming a SubDimension; MultiSubDimensions that
\* share an implicit dimension and its Function, that have neither, and that
\* share the implicit dimension only.
ConcDims ==
  LET x  == PlainDim("x")
      xi == SubDim("xi", x)
      xj == SubDim("xj", x)
      F  == BoundsFunction("bounds", <<"n", "b">>)
      G  == BoundsFunction("limits", <<"n", "b">>)
  IN  { x, xi, xj,
        CondDim("cx", x, {}), CondDim("cxi", xi, {}), CondDim("cc", x, {xj}),
        MultiDim("ix", <<"n">>, <<F>>), MultiDim("iy", <<"n">>, <<F>>),
        MultiDim("iz", <<>>, <<>>), MultiDim("iw", <<"n">>, <<G>>) }

\* The expressions: the Dimensions among their free symbols, their implicit
\* dims, and the Arrays they index, each with its Dimensions.
ConcExprs ==
  LET x  == PlainDim("x")
      xi == SubDim("xi", x)
  IN  { [syms |-> s, implicit |-> im, arrays |-> ar] :
          s  \in SmallSubsets(ConcDims, MaxSymbols),
          im \in {<<>>, <<xi>>, <<CondDim("cxi", xi, {})>>,
                   <<MultiDim("iy", <<"n">>, <<BoundsFunction("bounds", <<"n", "b">>)>>)>>},
          ar \in {{}, {[name |-> "a", dims |-> <<xi, PlainDim("y")>>]}} }

NoExprs == [syms |-> {}, implicit |-> <<>>, arrays |-> {}]

\* SymbolRegistry.make_name(prefix): the prefix and the count of the names
\* made from it so far.
make_name(sreg, prefix) ==
  prefix \o ToString(IF prefix \in DOMAIN sreg THEN sreg[prefix] ELSE 0)

\* The registry after make_name(prefix).
Made(sreg, prefix) ==
  (prefix :> (IF prefix \in DOMAIN sreg THEN sreg[prefix] ELSE 0) + 1) @@ sreg

\* [sregistry.make_name(prefix=tkn.name) for tkn in tkns]
RECURSIVE MakeNames(_, _)
MakeNames(sreg, tkns) ==
  IF tkns = <<>> THEN [names |-> <<>>, sreg |-> sreg]
  ELSE LET rest == MakeNames(Made(sreg, Head(tkns)), Tail(tkns))
       IN  [names |-> <<make_name(sreg, Head(tkns))>> \o rest.names,
            sreg  |-> rest.sreg]

\* The handler for SubDimension without its `if d in mapper: return`.
MutConcretizeSubDimension(d, st) ==
  LET made == MakeNames(st.sreg, d.tkns)
  IN  [st EXCEPT !.mapper = (d :> [d EXCEPT !.tkns = made.names]) @@ @,
                 !.sreg = made.sreg]

\* _concretize_subdims registered for SubDimension; `st` holds the mapper,
\* the rebuilt dict and the registry.
ConcretizeSubDimension(d, st) ==
  IF d \in DOMAIN st.mapper THEN st
  ELSE LET made == MakeNames(st.sreg, d.tkns)
       IN  [st EXCEPT !.mapper = (d :> [d EXCEPT !.tkns = made.names]) @@ @,
                      !.sreg = made.sreg]

\* _concretize_subdims registered for MultiSubDimension
ConcretizeMultiSubDimension(d, st) ==
  IF d \in DOMAIN st.mapper THEN st
  ELSE LET made == MakeNames(st.sreg, symbolic_thickness(d.name))
           d1   == [d EXCEPT !.tkns = made.names]
       IN  IF d.idim = <<>>
           THEN [st EXCEPT !.mapper = (d :> d1) @@ @, !.sreg = made.sreg]
           ELSE IF d.idim[1] \in DOMAIN st.rebuilt.dims
                   /\ d.funcs[1] \in DOMAIN st.rebuilt.funcs
           THEN [st EXCEPT
                   !.mapper = (d :> [d1 EXCEPT
                                 !.idim = <<st.rebuilt.dims[d.idim[1]]>>,
                                 !.funcs = <<st.rebuilt.funcs[d.funcs[1]]>>]) @@ @,
                   !.sreg = made.sreg]
           ELSE LET iname    == make_name(made.sreg, d.idim[1])
                    frebuilt == [d.funcs[1] EXCEPT
                                   !.dims = <<iname>> \o Tail(d.funcs[1].dims)]
                IN  [st EXCEPT
                       !.mapper = (d :> [d1 EXCEPT !.idim = <<iname>>,
                                                   !.funcs = <<frebuilt>>]) @@ @,
                       !.rebuilt = [dims  |-> (d.idim[1] :> iname) @@ @.dims,
                                    funcs |-> (d.funcs[1] :> frebuilt) @@ @.funcs],
                       !.sreg = Made(made.sreg, d.idim[1])]

RECURSIVE concretize(_, _)

\* for v in d.condition.free_symbols: _concretize_subdims(v, ...)
RECURSIVE ConcretizeAll(_, _)
ConcretizeAll(S, st) ==
  IF S = {} THEN st
  ELSE LET v == CHOOSE v \in S : TRUE
       IN  ConcretizeAll(S \ {v}, concretize(v, st))

Replaced(mapper, d) == IF d \in DOMAIN mapper THEN mapper[d] ELSE d

\* _concretize_subdims registered for ConditionalDimension
ConcretizeConditionalDimension(d, st) ==
  IF d \in DOMAIN st.mapper THEN st
  ELSE LET p   == CHOOSE p \in d.parent : TRUE
           st1 == concretize(p, st)
           st2 == ConcretizeAll(d.cond, st1)
           d1  == IF p \in DOMAIN st1.mapper
                  THEN [d EXCEPT !.parent = {st1.mapper[p]}] ELSE d
           d2  == IF \E v \in d.cond : v \in DOMAIN st2.mapper
                  THEN [d1 EXCEPT !.cond = {Replaced(st2.mapper, v) : v \in d.cond}]
                  ELSE d1
       IN  IF d2 # d THEN [st2 EXCEPT !.mapper = (d :> d2) @@ @] ELSE st2

\* The singledispatch of _concretize_subdims on a free symbol.
concretize(a, st) ==
  CASE a.kind = "sub"   -> ConcretizeSubDimension(a, st)
    [] a.kind = "cond"  -> ConcretizeConditionalDimension(a, st)
    [] a.kind = "multi" -> ConcretizeMultiSubDimension(a, st)
    [] OTHER            -> st

\* uxreplace(e, mapper), the Arrays of lines 181-187 included.
uxreplace_dims(e, mapper) ==
  [syms     |-> {Replaced(mapper, d) : d \in e.syms},
   implicit |-> [k \in DOMAIN e.implicit |-> Replaced(mapper, e.implicit[k])],
   arrays   |-> {[f EXCEPT !.dims = [k \in DOMAIN f.dims |-> Replaced(mapper, f.dims[k])]] :
                   f \in e.arrays}]

\* What concretize_subdims returns.
Concretized(e, mapper) ==
  IF DOMAIN mapper = {} THEN e ELSE uxreplace_dims(e, mapper)

EmptyMapper == [k \in {} |-> PlainDim("x")]

EmptyRebuilt == [dims |-> [k \in {} |-> ""], funcs |-> [k \in {} |-> BoundsFunction("", <<>>)]]

EmptyRegistry == [k \in {} |-> 0]

NothingTodo == [syms |-> {}, implicit |-> <<>>]

ConcIdle ==
  /\ cs_exprs = NoExprs
  /\ cs_todo = NothingTodo
  /\ cs_mapper = EmptyMapper
  /\ cs_rebuilt = EmptyRebuilt
  /\ sregistry = EmptyRegistry
  /\ cs_pc = "idle"
  /\ cs_calls = <<>>

\* concretize_subdims(exprs, sregistry=sregistry) is called: lines 168-171.
ConcInit ==
  /\ cs_exprs \in ConcExprs
  /\ cs_todo = [syms |-> cs_exprs.syms, implicit |-> cs_exprs.implicit]
  /\ cs_mapper = EmptyMapper
  /\ cs_rebuilt = EmptyRebuilt
  /\ sregistry = EmptyRegistry
  /\ cs_pc = "running"
  /\ cs_calls = <<>>

\* The handler for Eq visits the free symbols, in the order the set yields
\* them, and the implicit dims after them.
NextSymbols ==
  IF cs_todo.syms # {} THEN cs_todo.syms
  ELSE IF cs_todo.implicit # <<>> THEN {Head(cs_todo.implicit)}
  ELSE {}

Visited(d) ==
  IF cs_todo.syms # {} THEN [cs_todo EXCEPT !.syms = @ \ {d}]
  ELSE [cs_todo EXCEPT !.implicit = Tail(@)]

\* _concretize_subdims(d, mapper, rebuilt, sregistry) on the running call's
\* mapper, rebuilt dict and registry.
Dispatched(d) ==
  concretize(d, [mapper |-> cs_mapper, rebuilt |-> cs_rebuilt, sreg |-> sregistry])

\* The next symbol is no SubDimension, ConditionalDimension or
\* MultiSubDimension: the default handler passes.
DispatchDefault ==
  /\ cs_pc = "running"
  /\ \E d \in NextSymbols :
       /\ d.kind = "plain"
       /\ cs_mapper' = Dispatched(d).mapper
       /\ cs_rebuilt' = Dispatched(d).rebuilt
       /\ sregistry' = Dispatched(d).sreg
       /\ cs_todo' = Visited(d)
  /\ UNCHANGED <<cs_exprs, cs_pc, cs_calls, notConc>>

\* The next symbol is a SubDimension.
DispatchSubDimension ==
  /\ cs_pc = "running"
  /\ \E d \in NextSymbols :
       /\ d.kind = "sub"
       /\ cs_mapper' = Dispatched(d).mapper
       /\ cs_rebuilt' = Dispatched(d).rebuilt
       /\ sregistry' = Dispatched(d).sreg
       /\ cs_todo' = Visited(d)
  /\ UNCHANGED <<cs_exprs, cs_pc, cs_calls, notConc>>

\* The next symbol is a ConditionalDimension.
DispatchConditionalDimension ==
  /\ cs_pc = "running"
  /\ \E d \in NextSymbols :
       /\ d.kind = "cond"
       /\ cs_mapper' = Dispatched(d).mapper
       /\ cs_rebuilt' = Dispatched(d).rebuilt
       /\ sregistry' = Dispatched(d).sreg
       /\ cs_todo' = Visited(d)
  /\ UNCHANGED <<cs_exprs, cs_pc, cs_calls, notConc>>

\* The next symbol is a MultiSubDimension.
DispatchMultiSubDimension ==
  /\ cs_pc = "running"
  /\ \E d \in NextSymbols :
       /\ d.kind = "multi"
       /\ cs_mapper' = Dispatched(d).mapper
       /\ cs_rebuilt' = Dispatched(d).rebuilt
       /\ sregistry' = Dispatched(d).sreg
       /\ cs_todo' = Visited(d)
  /\ UNCHANGED <<cs_exprs, cs_pc, cs_calls, notConc>>

\* Lines 172-191: the expressions are returned, replaced through the mapper
\* unless it is empty.
ConcretizeReturn ==
  /\ cs_pc = "running"
  /\ NextSymbols = {}
  /\ cs_calls' = Append(cs_calls, [exprs |-> cs_exprs, mapper |-> cs_mapper,
                                   rebuilt |-> cs_rebuilt,
                                   processed |-> Concretized(cs_exprs, cs_mapper)])
  /\ cs_pc' = "returned"
  /\ UNCHANGED <<cs_exprs, cs_todo, cs_mapper, cs_rebuilt, sregistry, notConc>>

\* concretize_subdims is called on what it returned, with the same registry.
ConcretizeAgain ==
  /\ cs_pc = "returned"
  /\ Len(cs_calls) = 1
  /\ cs_exprs' = cs_calls[1].processed
  /\ cs_todo' = [syms |-> cs_exprs'.syms, implicit |-> cs_exprs'.implicit]
  /\ cs_mapper' = EmptyMapper
  /\ cs_rebuilt' = EmptyRebuilt
  /\ cs_pc' = "running"
  /\ UNCHANGED <<sregistry, cs_calls, notConc>>

ConcNext ==
  \/ DispatchDefault
  \/ DispatchSubDimension
  \/ DispatchConditionalDimension
  \/ DispatchMultiSubDimension
  \/ ConcretizeReturn
  \/ ConcretizeAgain

(***************************************************************************)
(*                 ExpressionLowerer (algorithms.py:95-158)                *)
(***************************************************************************)

\* Largest number of terms in an expression.
MaxTerms == 2

\* Largest left halo+padding of a Function along a space Dimension.
MaxHalo == 2

\* The Functions: their Dimensions, and whether they are an Array with an
\* initvalue.
LowFunctions ==
  ( "u"   :> [dims |-> <<"t", "x", "y">>, initarray |-> FALSE]
 @@ "b"   :> [dims |-> <<"x">>,           initarray |-> FALSE]
 @@ "arr" :> [dims |-> <<"x">>,           initarray |-> TRUE] )

\* f._size_nodomain.left: no halo along `t`, `halo[d]` along a space
\* Dimension d.
size_nodomain_left(f, halo) ==
  [k \in DOMAIN LowFunctions[f].dims |->
     IF LowFunctions[f].dims[k] \in DOMAIN halo THEN halo[LowFunctions[f].dims[k]] ELSE 0]

\* An index: dim + off + sp*h_dim, plus the nested Indexed if there is one.
Idx(d, off, sp) == [dim |-> d, off |-> off, sp |-> sp, nested |-> <<>>]

\* A term of the expression: an Indexed, a Function in function notation,
\* or a Dimension.
IndexedTerm(f, idx) == [kind |-> "indexed", fn |-> f, idx |-> idx]
FunctionTerm(f, idx) == [kind |-> "function", fn |-> f, idx |-> idx]
DimensionTerm(d) == [kind |-> "dimension", fn |-> "", idx |-> <<Idx(d, 0, 0)>>]

LowTerms ==
  { IndexedTerm("u", <<Idx("t", 1, 0), Idx("x", 0, 0), Idx("y", 0, 0)>>),
    IndexedTerm("u", <<Idx("t", 0, 0), Idx("x", -1, 0), Idx("y", 0, 0)>>),
    IndexedTerm("u", <<Idx("t", 0, 0), Idx("x", 1, 0), Idx("y", 0, 0)>>),
    FunctionTerm("u", <<Idx("t", 0, 0), Idx("x", 0, -1), Idx("y", 0, 2)>>),
    IndexedTerm("b", <<[dim |-> "", off |-> 1, sp |-> 0,
                        nested |-> <<IndexedTerm("b", <<Idx("x", -1, 0)>>)>>]>>),
    IndexedTerm("arr", <<Idx("x", 0, 0)>>),
    DimensionTerm("x") }

\* expr.subdomain.dimension_map: none, or the SubDomain's.
DimensionMaps == {EmptyDict, ("x" :> "xi") @@ ("y" :> "yi")}

\* The user-supplied substitutions.
LowSubs == {EmptyDict, ("y" :> "ys")}

xreplace_dim(rule, d) == IF d \in DOMAIN rule THEN rule[d] ELSE d

RECURSIVE xreplace_index(_, _)
RECURSIVE xreplace_indexed(_, _)

\* j.xreplace(rule) on an index
xreplace_index(a, rule) ==
  [a EXCEPT !.dim = xreplace_dim(rule, @),
            !.nested = [k \in DOMAIN a.nested |-> xreplace_indexed(a.nested[k], rule)]]

xreplace_indexed(i, rule) ==
  [i EXCEPT !.idx = [k \in DOMAIN i.idx |-> xreplace_index(i.idx[k], rule)]]

RECURSIVE lower_indexed(_, _, _, _)

\* _lower_exprs(a, subs) on the index `a`: its nested Indexeds are lowered
\* and the substitutions applied.
lower_index(a, subs, halo) ==
  [a EXCEPT !.dim = xreplace_dim(subs, @),
            !.nested = [k \in DOMAIN a.nested |->
                          lower_indexed(a.nested[k], subs, EmptyDict, halo)]]

\* The shift added twice.
MutShifted(indices, left) ==
  [k \in 1..(IF Len(indices) < Len(left) THEN Len(indices) ELSE Len(left)) |->
     [indices[k] EXCEPT !.off = @ + left[k] + left[k]]]

\* [a + o for a, o in zip(indices, f._size_nodomain.left)]
Shifted(indices, left) ==
  [k \in 1..(IF Len(indices) < Len(left) THEN Len(indices) ELSE Len(left)) |->
     [indices[k] EXCEPT !.off = @ + left[k]]]

\* i.xreplace({d.spacing: 1, -d.spacing: -1})
SpacingReplaced(a) == [a EXCEPT !.off = @ + a.sp, !.sp = 0]

\* The body of `for i in retrieve_indexed(expr)`: what mapper[i] is set to.
lower_indexed(i, subs, dimension_map, halo) ==
  LET lowered == [k \in DOMAIN i.idx |-> lower_index(i.idx[k], subs, halo)]
      shifted == Shifted(lowered, size_nodomain_left(i.fn, halo))
      spaced  == [k \in DOMAIN shifted |-> SpacingReplaced(shifted[k])]
      indices == IF DOMAIN dimension_map # {}
                 THEN [k \in DOMAIN spaced |-> xreplace_index(spaced[k], dimension_map)]
                 ELSE spaced
  IN  [kind |-> "indexed",
       fn   |-> IF LowFunctions[i.fn].initarray THEN i.fn \o "i" ELSE i.fn,
       idx  |-> indices]

\* f.indexify(subs=dimension_map)
indexify(f, dimension_map) ==
  [xreplace_indexed(f, dimension_map) EXCEPT !.kind = "indexed"]

\* The mapper _lower_exprs builds for one expression.
LowMapper(expr, subs, dimension_map, halo) ==
  LET terms == {expr[k] : k \in DOMAIN expr}
      fmap  == [f \in {x \in terms : x.kind = "function"} |->
                  lower_indexed(indexify(f, dimension_map), subs, EmptyDict, halo)]
      imap  == [i \in {x \in terms : x.kind = "indexed"} |->
                  lower_indexed(i, subs, dimension_map, halo)]
      rule  == Update(dimension_map, subs)
      dmap  == [d \in {x \in terms : x.kind = "dimension" /\ x.idx[1].dim \in DOMAIN rule} |->
                  DimensionTerm(rule[d.idx[1].dim])]
  IN  Update(Update(fmap, imap), dmap)

\* uxreplace(expr, mapper): every term the mapper knows is replaced by what
\* the mapper has for it, and what it is replaced by is not searched again.
uxreplace(expr, mapper) ==
  [k \in DOMAIN expr |-> IF expr[k] \in DOMAIN mapper THEN mapper[expr[k]] ELSE expr[k]]

\* _lower_exprs(expr, subs)
lower_exprs(expr, subs, dimension_map, halo) ==
  uxreplace(expr, LowMapper(expr, subs, dimension_map, halo))

LowIdle ==
  /\ lw_expr = <<>>
  /\ lw_subs = EmptyDict
  /\ lw_dimension_map = EmptyDict
  /\ lw_halo = EmptyDict
  /\ lw_processed = <<>>
  /\ lw_pc = "idle"

LowInit ==
  /\ lw_expr \in SeqsUpTo(LowTerms, MaxTerms)
  /\ lw_subs \in LowSubs
  /\ lw_dimension_map \in DimensionMaps
  /\ lw_halo \in [{"x", "y"} -> 0..MaxHalo]
  /\ lw_processed = <<>>
  /\ lw_pc = "start"

\* lower_exprs(expr, subs) is called.
LowerExprs ==
  /\ lw_pc = "start"
  /\ lw_processed' = lower_exprs(lw_expr, lw_subs, lw_dimension_map, lw_halo)
  /\ lw_pc' = "done"
  /\ UNCHANGED <<lw_expr, lw_subs, lw_dimension_map, lw_halo, notLow>>

LowNext == LowerExprs

(***************************************************************************)
(*                           The specifications                            *)
(***************************************************************************)

InitStream == StreamInit /\ OpIdle /\ SortIdle /\ ConcIdle /\ LowIdle
SpecStream == InitStream /\ [][StreamNext]_vars

InitOptions == OpInit /\ StreamIdle /\ SortIdle /\ ConcIdle /\ LowIdle
SpecOptions == InitOptions /\ [][OpNext]_vars

InitSort == SortInit /\ StreamIdle /\ OpIdle /\ ConcIdle /\ LowIdle
SpecSort == InitSort /\ [][SortNext]_vars

InitConcretize == ConcInit /\ StreamIdle /\ OpIdle /\ SortIdle /\ LowIdle
SpecConcretize == InitConcretize /\ [][ConcNext]_vars

InitLower == LowInit /\ StreamIdle /\ OpIdle /\ SortIdle /\ ConcIdle
SpecLower == InitLower /\ [][LowNext]_vars

(***************************************************************************)
(*                     Properties of the StreamingClassifier               *)
(***************************************************************************)

\* The concrete iteration-space Dimensions of the written (read) Functions
\* that do not fit on the device.
OffDeviceWriteDims ==
  {cluster.ispace[f.time_dim] :
     f \in {g \in cluster.writes : ~is_on_device(g, gpu_fit)}}

OffDeviceReadDims ==
  {cluster.ispace[f.time_dim] :
     f \in {g \in cluster.reads : ~is_on_device(g, gpu_fit)}}

\* C1: whenever task_key(c) returned a Dimension, memcpy_key(c) for the same
\* cluster and gpu-fit returned None: a cluster never gets both a task
\* Dimension and a memcpy Dimension.
C1_TaskExcludesMemcpy ==
  (task_res.kind = "dim" /\ memcpy_res # Pending) => memcpy_res = RetNone

\* C1 witness: task_key returned a Dimension, memcpy_key returned None, and
\* the cluster does read a Function that is off the device.
C1_Witness ==
  /\ task_res.kind = "dim"
  /\ memcpy_res = RetNone
  /\ OffDeviceReadDims # {}

\* C2: task_key(c) returns None when no written Function is off the device,
\* the single concrete Dimension when there is exactly one, and raises when
\* the off-device written Functions map to more than one concrete Dimension.
C2_TaskKeyByCases ==
  task_res # Pending =>
    /\ OffDeviceWriteDims = {} => task_res = RetNone
    /\ Cardinality(OffDeviceWriteDims) = 1 =>
         task_res.kind = "dim" /\ task_res.dims = OffDeviceWriteDims
    /\ Cardinality(OffDeviceWriteDims) > 1 => task_res.kind = "ValueError"

\* C2 witness: two off-device written Functions with different concrete
\* Dimensions made task_key raise.
C2_Witness ==
  /\ Cardinality(OffDeviceWriteDims) > 1
  /\ task_res.kind = "ValueError"

(***************************************************************************)
(*                   Properties of options normalization                   *)
(***************************************************************************)

\* The keys options normalization consumes: those the base handler pops and
\* 'openmp', which both language mixins pop.
RecognizedKeys == PoppedKeys \cup {"openmp"}

OffendingKeys == DOMAIN opts_in \ RecognizedKeys

\* _normalize_kwargs has returned (normally) in this state.
Normalized ==
  op_pc \in {"normalized", "checked", "failed_check", "passes_checked", "failed_passes",
             "dsl", "clusters", "done"}

\* No kwargs['options'].update(o) happened: no key that only `o` carries is
\* in the caller's dict, and no language flag was set.
NothingPublished ==
  /\ (DOMAIN FixedOptions \ DOMAIN opts_in) \cap DOMAIN oo = {}
  /\ \A k \in DOMAIN oo \cap DOMAIN opts_in : oo[k] = opts_in[k]

GpuCreateGiven ==
  /\ "gpu-create" \in DOMAIN opts_in
  /\ opts_in["gpu-create"] \notin {None, Tup(<<>>)}

\* C4: a non-empty 'gpu-create' never passes validation under the OpenMP
\* backend, where _check_kwargs raises InvalidOperator; validation fails in
\* _check_kwargs for no other reason, so under OpenACC, and for an empty
\* list, normalized options are accepted.
C4_GpuCreateOnlyAcc ==
  /\ (backend = "omp" /\ GpuCreateGiven) =>
        op_pc \notin {"checked", "passes_checked", "failed_passes", "dsl", "clusters", "done"}
  /\ (backend = "omp" /\ GpuCreateGiven /\ Normalized) =>
        op_pc \in {"normalized", "failed_check"}
  /\ op_pc = "failed_check" =>
        /\ backend = "omp" /\ GpuCreateGiven
        /\ op_err = [type |-> "InvalidOperator", keys |-> {"gpu-create"}]
  /\ (backend = "acc" /\ Normalized) => op_pc # "failed_check"

\* C4 witness: the OpenMP check has rejected a non-empty list.
C4_Witness ==
  /\ op_pc = "failed_check"
  /\ backend = "omp"
  /\ GpuCreateGiven

\* The mode names 'tasking' or 'streaming'.
ModeNamesStreaming ==
  /\ mode.t = "tuple"
  /\ \E k \in 1..Len(mode.v) : mode.v[k] \in {"tasking", "streaming"}

\* The constituent values of the gpu-fit entry the caller supplied.
SuppliedGpuFit ==
  LET x == opts_in["gpu-fit"]
  IN  IF x.t = "none" THEN {}
      ELSE UNION {TensorValues(x.v[i]) : i \in 1..Len(x.v)}

\* C5: with no 'gpu-fit' entry the normalized gpu-fit is (None,) when the mode
\* names 'tasking' or 'streaming' and ('all-fallback',) otherwise; a supplied
\* entry is used, flattened to its constituent values, whatever the mode.
C5_GpuFitDefault ==
  Normalized =>
    IF "gpu-fit" \notin DOMAIN opts_in
    THEN oo["gpu-fit"] = IF ModeNamesStreaming THEN Tup(<<"None">>)
                         ELSE Tup(<<"all-fallback">>)
    ELSE /\ {oo["gpu-fit"].v[i] : i \in 1..Len(oo["gpu-fit"].v)} = SuppliedGpuFit
         /\ Len(oo["gpu-fit"].v) = Cardinality(SuppliedGpuFit)

\* C5 witness: a streaming mode without 'gpu-fit' normalized to (None,).
C5_Witness ==
  /\ Normalized
  /\ "gpu-fit" \notin DOMAIN opts_in
  /\ ModeNamesStreaming
  /\ oo["gpu-fit"] = Tup(<<"None">>)

Before(order, a, b) ==
  \E i, j \in 1..Len(order) : i < j /\ order[i] = a /\ order[j] = b

SortResults == {r \in {ds_first, ds_second} : r.st = "ok"}

SameOrderTwice ==
  (ds_first # NotSorted /\ ds_second # NotSorted) => ds_first = ds_second

\* C8 as the specification states it: dimension_sort is deterministic and,
\* in the order it returns, the parent precedes the child for every derived
\* Dimension of the equation, the indirect ones included.
C8_ParentBeforeEveryDerived_AsStated ==
  /\ SameOrderTwice
  /\ \A r \in SortResults :
       \A d \in Range(r.order) :
          (DimTable[d].derived /\ DimTable[d].parent \in Range(r.order))
             => Before(r.order, DimTable[d].parent, d)

\* C8: two calls of dimension_sort on one equation return the same order,
\* and in that order the parent precedes the child for every derived
\* Dimension found in the equation's expressions that is not indirect.
C8_ParentBeforeDirectDerived ==
  /\ SameOrderTwice
  /\ \A r \in SortResults :
       \A d \in ExtraDims(ds_expr) :
          (DimTable[d].derived /\ ~DimTable[d].indirect)
             => Before(r.order, DimTable[d].parent, d)

\* Both calls returned, on an equation with a SubDimension, an indirect
\* ConditionalDimension ahead of its parent, and two equally named
\* Dimensions in `extra`.
C8_Witness ==
  /\ ds_first.st = "ok" /\ ds_second.st = "ok"
  /\ {"xi", "ci", "xc", "x"} \subseteq ExtraDims(ds_expr)
  /\ Before(ds_second.order, "x", "xi")
  /\ Before(ds_second.order, "ci", "x")

IndexDiffers(d) == DimTable[DimIndex(d)].name # DimTable[d].name

\* C9 as the specification states it: a Dimension whose index has another
\* name has that index immediately before it in the returned order.
C9_IndexImmediatelyBefore_AsStated ==
  \A r \in SortResults :
     \A k \in 1..Len(r.order) :
        IndexDiffers(r.order[k]) => (k > 1 /\ r.order[k - 1] = DimIndex(r.order[k]))

\* C9: a Dimension of a relation whose index has another name has that
\* index somewhere before it in the returned order, not necessarily next
\* to it.
C9_IndexBefore ==
  \A r \in SortResults :
     \A d \in UNION {Range(rel) : rel \in Relations(ds_expr)} :
        IndexDiffers(d) => Before(r.order, DimIndex(d), d)

\* `t` and `tsub` both have the index `time`, which precedes both and is
\* next to one of them only.
C9_Witness ==
  /\ ds_first.st = "ok"
  /\ {"t", "tsub"} \subseteq UNION {Range(rel) : rel \in Relations(ds_expr)}
  /\ Before(ds_first.order, "time", "t")
  /\ Before(ds_first.order, "time", "tsub")
  /\ \E k \in 2..Len(ds_first.order) :
        ds_first.order[k] = "tsub" /\ ds_first.order[k - 1] # "time"


(***************************************************************************)
(*                   Properties of concretize_subdims                      *)
(***************************************************************************)

\* A Dimension with the names concretization makes left out.
RECURSIVE Shape(_)
Shape(d) ==
  [kind |-> d.kind, name |-> d.name,
   parent |-> {Shape(p) : p \in d.parent},
   cond |-> {Shape(c) : c \in d.cond},
   implicit |-> d.idim # <<>>]

ShapeOfExprs(e) ==
  [syms     |-> {Shape(d) : d \in e.syms},
   implicit |-> [k \in DOMAIN e.implicit |-> Shape(e.implicit[k])],
   arrays   |-> {[name |-> f.name, dims |-> [k \in DOMAIN f.dims |-> Shape(f.dims[k])]] :
                   f \in e.arrays}]

\* C7 as the specification states it: the second call returns its input
\* and replaces no Dimension the first call made.
C7_SecondCallChangesNothing_AsStated ==
  Len(cs_calls) = 2 =>
     /\ cs_calls[2].processed = cs_calls[1].processed
     /\ \A d \in DOMAIN cs_calls[1].mapper :
           cs_calls[1].mapper[d] \notin DOMAIN cs_calls[2].mapper

\* Within a call every use of a Dimension gets the one replacement: a
\* rebuilt ConditionalDimension has the replacement of its parent.
OneReplacementPerCall ==
  \A d \in DOMAIN cs_mapper : \A p \in d.parent :
     (d.kind = "cond" /\ p \in DOMAIN cs_mapper)
        => cs_mapper[d].parent = {cs_mapper[p]}

\* C7: a Dimension already mapped is skipped within one call only. A second
\* call on the first call's result, with the same registry, returns it
\* unchanged only when the first call had nothing to concretize; otherwise
\* it replaces every Dimension the first call made once more, and what it
\* returns differs from its input in the names made only.
C7_SecondCallRenames ==
  /\ OneReplacementPerCall
  /\ Len(cs_calls) = 2 =>
       LET m1 == cs_calls[1].mapper
           m2 == cs_calls[2].mapper
       IN  /\ DOMAIN m1 = {} => cs_calls[2].processed = cs_calls[1].processed
           /\ DOMAIN m1 # {} => cs_calls[2].processed # cs_calls[1].processed
           /\ \A d \in DOMAIN m1 :
                 m1[d] \in DOMAIN m2 /\ m2[m1[d]] # m1[d]
           /\ ShapeOfExprs(cs_calls[2].processed) = ShapeOfExprs(cs_calls[1].processed)

\* Both calls returned, the first having rebuilt a SubDimension, a
\* ConditionalDimension and a MultiSubDimension, the second having rebuilt
\* them again.
C7_Witness ==
  /\ Len(cs_calls) = 2
  /\ {d.kind : d \in DOMAIN cs_calls[1].mapper} = {"sub", "cond", "multi"}
  /\ \A d \in DOMAIN cs_calls[1].mapper :
        cs_calls[1].mapper[d] \in DOMAIN cs_calls[2].mapper
  /\ cs_calls[2].processed # cs_calls[1].processed

(***************************************************************************)
(*                      Properties of lower_exprs                          *)
(***************************************************************************)

\* The indices of the lowered Indexed `o` are those of `i`, each with the
\* left size of the Function along the Dimension at its position added
\* once, the spacing replaced by one.
ShiftedOnce(i, o) ==
  /\ Len(o.idx) = Len(i.idx)
  /\ \A j \in DOMAIN i.idx :
        /\ o.idx[j].off = i.idx[j].off + i.idx[j].sp + size_nodomain_left(i.fn, lw_halo)[j]
        /\ o.idx[j].sp = 0

\* C10: lowering adds to every index of an Indexed the left halo+padding
\* size of the Function along the Dimension at that index's position,
\* exactly once, whatever the number of occurrences and for a nested
\* Indexed on its own indices only.
C10_ShiftByLeftSizeOnce ==
  lw_pc = "done" =>
     \A k \in DOMAIN lw_expr :
        lw_expr[k].kind \in {"indexed", "function"} =>
           /\ ShiftedOnce(lw_expr[k], lw_processed[k])
           /\ \A j \in DOMAIN lw_expr[k].idx :
                 /\ Len(lw_processed[k].idx[j].nested) = Len(lw_expr[k].idx[j].nested)
                 /\ \A n \in DOMAIN lw_expr[k].idx[j].nested :
                       ShiftedOnce(lw_expr[k].idx[j].nested[n],
                                   lw_processed[k].idx[j].nested[n])

\* With a left size of 2 along x and 1 along y, u[t,x-1,y] and u[t,x+1,y]
\* are lowered to u[t,x+1,y+1] and u[t,x+3,y+1].
C10_Witness ==
  /\ lw_pc = "done"
  /\ lw_halo["x"] = 2 /\ lw_halo["y"] = 1
  /\ lw_expr = <<IndexedTerm("u", <<Idx("t", 0, 0), Idx("x", -1, 0), Idx("y", 0, 0)>>),
                 IndexedTerm("u", <<Idx("t", 0, 0), Idx("x", 1, 0), Idx("y", 0, 0)>>)>>
  /\ lw_processed = <<IndexedTerm("u", <<Idx("t", 0, 0), Idx("x", 1, 0), Idx("y", 1, 0)>>),
                      IndexedTerm("u", <<Idx("t", 0, 0), Idx("x", 3, 0), Idx("y", 1, 0)>>)>>

(***************************************************************************)
(*                   Properties of the Custom pipeline                     *)
(***************************************************************************)

\* The tables of the three stages that have an implementation for `n`.
TablesWith(b, n) ==
  {t \in {"dsl", "clusters", "iet"} :
     n \in DOMAIN (CASE t = "dsl"      -> DslPassesMapper
                     [] t = "clusters" -> ClustersPassesMapper
                     [] OTHER          -> IetPassesMapper(b))}

PassNames == {mode.v[k] : k \in DOMAIN mode.v}

\* What the Custom pipeline runs for the pass list, stage after stage.
CustomRun(b, names) ==
  CustomStage(names, DslPassesMapper) \o CustomStage(names, ClustersPassesMapper)
  \o CustomStage(names, IetPassesMapper(b))

\* C11: under either backend every known pass name has an implementation
\* in exactly one of the three tables and no known name is disabled; a
\* Custom pipeline whose list has a name that is not known, or is disabled,
\* fails the check of the list with nothing run; otherwise the list is
\* accepted and what runs are the implementations of its names, each in
\* the stage of its table.
C11_CustomRunsKnownPasses ==
  /\ \A b \in {"omp", "acc"} :
        /\ \A n \in known_passes(b) : Cardinality(TablesWith(b, n)) = 1
        /\ known_passes(b) \cap known_passes_disabled = {}
  /\ Level(mode) = "custom" =>
        /\ (PassNames \ known_passes(backend) # {}) =>
              /\ op_pc \notin {"passes_checked", "dsl", "clusters", "done"}
              /\ ran = <<>>
        /\ (PassNames \subseteq known_passes(backend) /\ op_pc # "checked") =>
              op_pc # "failed_passes"
        /\ op_pc = "failed_passes" =>
              /\ op_err = [type |-> "InvalidOperator",
                           keys |-> PassNames \ known_passes(backend)]
              /\ ran = <<>>
        /\ \A k \in DOMAIN ran :
              \E n \in PassNames \cap known_passes(backend) :
                 \E t \in TablesWith(backend, n) :
                    ran[k] = (CASE t = "dsl"      -> DslPassesMapper
                                [] t = "clusters" -> ClustersPassesMapper
                                [] OTHER          -> IetPassesMapper(backend))[n]
        /\ op_pc = "done" =>
              /\ ran = CustomRun(backend, mode.v)
              /\ Len(ran) = Len(mode.v)

\* The list ("streaming", "parallel") was accepted and has run: the copy
\* pass in the cluster stage, the backend's parallelization in the
\* final-graph stage.
C11_Witness ==
  /\ mode = Tup(<<"streaming", "parallel">>)
  /\ op_pc = "done"
  /\ ran = <<Pass("MemcpyAsync.process"), TargetPass("Parizer.make_parallel", backend)>>

(***************************************************************************)
(*                 Properties of the fixed pipeline's stages               *)
(***************************************************************************)

\* The cluster stage of the Adv or Fsg pipeline has run.
FixedClustersRan ==
  Level(mode) \in {"adv", "fsg"} /\ op_pc \in {"clusters", "done"}

\* Where in `ran` blocking was applied: at the eager position, right after
\* Lift, and at the lazy position, right after cse.
EagerBlockings == {k \in 2..Len(ran) : ran[k] = Pass("blocking") /\ ran[k - 1] = Pass("Lift")}
LazyBlockings  == {k \in 2..Len(ran) : ran[k] = Pass("blocking") /\ ran[k - 1] = Pass("cse")}
Blockings      == {k \in 1..Len(ran) : ran[k] = Pass("blocking")}

\* C12 as the specification states it: whatever the accepted options, the
\* cluster stage applies blocking at most once, and at the lazy position
\* when neither 'blockeager' nor 'blocklazy' is supplied.
C12_BlockingAtMostOnce_AsStated ==
  FixedClustersRan =>
     /\ Cardinality(Blockings) <= 1
     /\ ({"blockeager", "blocklazy"} \cap DOMAIN opts_in = {}) =>
           (Blockings = LazyBlockings /\ Cardinality(LazyBlockings) = 1)

\* The caller's 'blockeager', or the default.
EagerRequested ==
  Truthy(IF "blockeager" \in DOMAIN opts_in THEN opts_in["blockeager"] ELSE Bool(BLOCK_EAGER))

\* C12: the two positions exclude each other by default only. When
\* 'blocklazy' is not supplied the cluster stage applies blocking exactly
\* once, at the eager position if 'blockeager' is true and at the lazy one
\* otherwise, the latter being the case when neither is supplied; when
\* 'blocklazy' is supplied the lazy position is used as it says, whatever
\* 'blockeager', so that blocking is applied twice when both are true.
C12_BlockingExclusiveByDefault ==
  FixedClustersRan =>
     /\ Blockings = EagerBlockings \cup LazyBlockings
     /\ Cardinality(EagerBlockings) = (IF EagerRequested THEN 1 ELSE 0)
     /\ "blocklazy" \notin DOMAIN opts_in =>
           /\ Cardinality(Blockings) = 1
           /\ Cardinality(LazyBlockings) = (IF EagerRequested THEN 0 ELSE 1)
     /\ "blocklazy" \in DOMAIN opts_in =>
           Cardinality(LazyBlockings) = (IF Truthy(opts_in["blocklazy"]) THEN 1 ELSE 0)
     /\ ({"blockeager", "blocklazy"} \cap DOMAIN opts_in = {}) =>
           (Blockings = LazyBlockings /\ Cardinality(LazyBlockings) = 1)

\* Only 'blockeager' was supplied, as true: blocking was applied once, at
\* the eager position.
C12_Witness ==
  /\ FixedClustersRan
  /\ "blockeager" \in DOMAIN opts_in /\ Truthy(opts_in["blockeager"])
  /\ "blocklazy" \notin DOMAIN opts_in
  /\ Cardinality(EagerBlockings) = 1
  /\ LazyBlockings = {}

\* The passes of `ran` from position a to position b that are not blocking.
RECURSIVE Unblocked(_, _)
Unblocked(a, b) ==
  IF a > b THEN <<>>
  ELSE (IF ran[a] = Pass("blocking") THEN <<>> ELSE <<ran[a]>>) \o Unblocked(a + 1, b)

\* The position in `ran` of the last pass of the cluster stage.
ClustersEnd ==
  IF op_pc = "done" THEN Len(ran) - Len(AdvSpecializeIet(backend)) ELSE Len(ran)

\* C13: the cluster stage of the Adv and Fsg pipelines runs fusion with
\* toposort, fission, the hoisting of invariants (cire, Lift), the
\* reduction of arithmetic (cire, factorize, optimize_pows), fusion and cse,
\* in this order and none of them skipped; blocking runs nowhere but right
\* after the hoisting and right after cse.
C13_ClusterStageOrder ==
  FixedClustersRan =>
     /\ ran[1] = Pass("collect_derivatives")
     /\ Unblocked(2, ClustersEnd) =
           <<Pass("fuse-toposort"), Pass("fission"),
             Pass("cire-invariants"), Pass("Lift"),
             Pass("cire-sops"), Pass("factorize"), Pass("optimize_pows"),
             Pass("fuse"), Pass("cse")>>
     /\ Blockings = EagerBlockings \cup LazyBlockings
     /\ \A k \in EagerBlockings : ran[k + 1] = Pass("cire-sops")
     /\ \A k \in LazyBlockings : k = ClustersEnd

\* The cluster stage has just returned, blocking applied at both positions.
C13_Witness ==
  /\ FixedClustersRan
  /\ op_pc = "clusters"
  /\ Cardinality(EagerBlockings) = 1
  /\ Cardinality(LazyBlockings) = 1
  /\ Len(ran) = 12

\* C14: the final-graph stage of the Adv and Fsg pipelines runs mpiize,
\* relax_incr_dimensions, the backend's make_parallel and initialize,
\* hoist_prodders, check_stability, the backend's DataManager and linearize,
\* in this order: the symbol definitions come after the parallelization and
\* the initialization and before the linearization, and the Parizer and the
\* DataManager are those of the one backend of the operator.
C14_FinalStageOrder ==
  (Level(mode) \in {"adv", "fsg"} /\ op_pc = "done") =>
     LET iet == SubSeq(ran, Len(ran) - 7, Len(ran))
     IN  /\ Len(ran) >= 18
         /\ [k \in 1..8 |-> iet[k].pass] =
               <<"mpiize", "relax_incr_dimensions", "Parizer.make_parallel",
                 "Parizer.initialize", "hoist_prodders", "check_stability",
                 "DataManager.process", "linearize">>
         /\ \A k \in {3, 4, 7} : iet[k].target = backend
         /\ \A k \in {1, 2, 5, 6, 8} : iet[k].target = "-"
         /\ \A k \in 1..Len(ran) :
               ran[k].target \in {"-", backend}

\* An Adv pipeline has run to its end under OpenACC.
C14_Witness ==
  /\ Level(mode) = "adv"
  /\ op_pc = "done"
  /\ backend = "acc"
  /\ ran[Len(ran) - 1] = TargetPass("DataManager.process", "acc")
  /\ ran[Len(ran)] = Pass("linearize")

(***************************************************************************)
(*               Properties of the `rebuilt` dict of a call                *)
(***************************************************************************)

\* The MultiSubDimensions the running call has processed, and those of
\* them that have an implicit dimension.
ProcessedMulti == {d \in DOMAIN cs_mapper : d.kind = "multi"}
ProcessedOwners == {d \in ProcessedMulti : d.idim # <<>>}

\* C15 as the specification states it: during a call, `rebuilt` holding
\* the rebuilt implicit dimension of a processed MultiSubDimension holds
\* its rebuilt Function too; the rebuilt implicit dimension `rebuilt` holds
\* is the one every processed owner was given, none having been replaced by
\* one of another name; two MultiSubDimensions with the same implicit
\* dimension and the same Function were given the same rebuilt implicit
\* dimension and the same rebuilt Function; and no two MultiSubDimensions
\* were given the same thickness names.
C15_RebuiltPairConsistent_AsStated ==
  /\ \A d \in ProcessedOwners :
        d.idim[1] \in DOMAIN cs_rebuilt.dims => d.funcs[1] \in DOMAIN cs_rebuilt.funcs
  /\ \A d \in ProcessedOwners :
        /\ d.idim[1] \in DOMAIN cs_rebuilt.dims
        /\ cs_mapper[d].idim = <<cs_rebuilt.dims[d.idim[1]]>>
  /\ \A d1, d2 \in ProcessedOwners :
        (d1.idim = d2.idim /\ d1.funcs = d2.funcs) =>
           /\ cs_mapper[d1].idim = cs_mapper[d2].idim
           /\ cs_mapper[d1].funcs = cs_mapper[d2].funcs
  /\ \A d1, d2 \in ProcessedMulti :
        d1 # d2 =>
           {cs_mapper[d1].tkns[k] : k \in 1..2} \cap {cs_mapper[d2].tkns[k] : k \in 1..2} = {}

\* A processed MultiSubDimension was given a rebuilt implicit dimension
\* that is not the first Dimension of the rebuilt Function it was given:
\* between two MultiSubDimensions sharing the implicit dimension and the
\* Function, one sharing the implicit dimension only was processed.
C15_Witness ==
  /\ cs_pc = "running"
  /\ \E d \in ProcessedOwners :
        cs_mapper[d].idim[1] # cs_mapper[d].funcs[1].dims[1]

=============================================================================
